---- MODULE Spec2Model ----
(***************************************************************************)
(* Model of the open-addressing / Robin Hood hash table of                 *)
(* src/hashtable.h: hash_table_init, hash_table_search, hash_table_insert, *)
(* hash_table_remove and hash_table_resize, with the djb2 string hash and  *)
(* the seeded home index.  Keys are C strings, modelled as sequences of    *)
(* non-zero bytes; values are opaque references, modelled as small         *)
(* positive integers.                                                      *)
(***************************************************************************)
EXTENDS Integers, Sequences, FiniteSets, TLC

\* ---------------------------------------------------------------- bounds
\* number of distinct keys the callers use (taken from KeyPool)
MaxKeys == 2
\* rand() results are 0 .. MaxSeed
MaxSeed == 1
\* hash_table_init is called with size in 2 .. MaxInitSize
MaxInitSize == 3
\* hash_table_init is called with maxpairs in 1 .. MaxInitPairs
MaxInitPairs == 2
\* an operation is explored only while the table's size stays <= MaxSize
MaxSize == 4
\* an operation is explored only if it resizes at most MaxResizes times
MaxResizes == 2
\* the growth scenario (SpecGrow): rand() results are 0 .. GrowMaxSeed, the
\* table is initialised with size 2 .. GrowInitSize and grows to GrowMaxSize
GrowMaxSeed == 2
GrowInitSize == 3
GrowMaxSize == 6
\* termination is checked for calls that resize at most MaxRetries times
MaxRetries == 3
\* the chain scenario (SpecChain): rand() results are 0 .. ChainMaxSeed, the
\* table is initialised with size ChainInitSize and grows to ChainMaxSize
ChainMaxSeed == 2
ChainInitSize == 5
ChainMaxSize == 20

\* ------------------------------------------------------------- constants
\* PAIR_FREE = cast(arch_t, -1): the largest arch_t, above every distance
PAIR_FREE == 2147483647
\* DIST_IDEAL = cast(arch_t, 0)
DIST_IDEAL == 0
\* the NULL pointer returned by search / insert / remove (a slot pointer is
\* modelled by the slot's index, 0 .. totalsize-1)
NULL == -1
\* what a call is given in place of a slot it indexed outside the slot array
\* (at or past totalsize); the model follows a call no further than that
OOB == -2

\* The keys: one-byte strings whose djb2 hashes agree modulo 4
\* ("a", "e", "i", "m", "q").
KeyPool == << <<97>>, <<101>>, <<105>>, <<109>>, <<113>> >>
Keys == {KeyPool[i] : i \in 1..MaxKeys}
\* the keys of the growth scenario ("b", "c", "d")
GrowKeys == {<<98>>, <<99>>, <<100>>}
\* the keys of the chain scenario ("a", "b", "c", "d", "j")
ChainKeys == GrowKeys \cup {<<97>>, <<106>>}
AllKeys == Keys \cup GrowKeys \cup ChainKeys
\* two distinct opaque value references (never 0, the unwritten memory)
Vals == {1, 2}
SeedSet == 0..MaxSeed
GrowSeedSet == 0..GrowMaxSeed
ChainSeedSet == 0..ChainMaxSeed

\* contents of malloc'ed memory that was never written (never read back)
UNINIT_KEY == <<0>>
UNINIT_VAL == 0

\* ------------------------------------------------------- pure functions
RECURSIVE XOR(_, _)
\* bitwise exclusive or of two naturals (the C operator ^)
XOR(a, b) ==
    IF a = 0 THEN b
    ELSE IF b = 0 THEN a
    ELSE 2 * XOR(a \div 2, b \div 2) + (((a % 2) + (b % 2)) % 2)

RECURSIVE arch_ilog2(_)
\* 8*sizeof(arch_t) - clz(n) - 1 = floor(log2(n)), for n >= 1
arch_ilog2(n) == IF n <= 1 THEN 0 ELSE 1 + arch_ilog2(n \div 2)

RECURSIVE strhash_from(_, _)
strhash_from(h, str) ==
    IF str = <<>> THEN h
    ELSE strhash_from(XOR(h * 32 + h, Head(str)), Tail(str))

\* djb2: h = 5381; h = ((h << 5) + h) ^ byte   (no wrap for the short keys used)
arch_strhash(str) == strhash_from(5381, str)

\* !arch_strcmp(a, b): the two strings are equal
arch_streq(a, b) == a = b

\* pair_init: {key, val, {0}}
pair_init(key, val) == [key |-> key, val |-> val, dist |-> 0]

\* arch_strhash of each key the callers use, computed once
StrHash == [k \in AllKeys |-> arch_strhash(k)]

\* (arch_strhash(key) ^ ht->hashseed) % ht->size
HomeIdx(ht, key) == XOR(StrHash[key], ht.hashseed) % ht.size

\* variant: the slot array has size slots, without the maxprobes guard slots
hash_table_init_no_guard(size, maxpairs, seed) ==
    LET maxprobes == arch_ilog2(size)
        totalsize == size
    IN  [pairs     |-> [i \in 0..(totalsize - 1) |->
                           [key |-> UNINIT_KEY, val |-> UNINIT_VAL, dist |-> PAIR_FREE]],
         size      |-> size,
         totalsize |-> totalsize,
         maxpairs  |-> maxpairs,
         maxprobes |-> maxprobes,
         numpairs  |-> 0,
         hashseed  |-> seed]

\* hash_table_init with the value rand() returned
hash_table_init(size, maxpairs, seed) ==
    LET maxprobes == arch_ilog2(size)
        totalsize == size + maxprobes
    IN  [pairs     |-> [i \in 0..(totalsize - 1) |->
                           [key |-> UNINIT_KEY, val |-> UNINIT_VAL, dist |-> PAIR_FREE]],
         size      |-> size,
         totalsize |-> totalsize,
         maxpairs  |-> maxpairs,
         maxprobes |-> maxprobes,
         numpairs  |-> 0,
         hashseed  |-> seed]

RECURSIVE search_from(_, _, _, _)
\* variant of the loop: the scan gives up at the first free slot
search_from_stop_at_free(ht, key, idx, dist) ==
    IF ~(dist < ht.maxprobes) THEN NULL
    ELSE IF idx >= ht.totalsize THEN OOB
    ELSE IF ht.pairs[idx].dist = PAIR_FREE THEN NULL
    ELSE IF ht.pairs[idx].dist = dist /\ arch_streq(ht.pairs[idx].key, key) THEN idx
    ELSE search_from(ht, key, idx + 1, dist + 1)

\* variant of the loop: the slot's key is compared whatever its dist field holds
search_from_any_dist(ht, key, idx, dist) ==
    IF ~(dist < ht.maxprobes) THEN NULL
    ELSE IF idx >= ht.totalsize THEN OOB
    ELSE IF arch_streq(ht.pairs[idx].key, key) THEN idx
    ELSE search_from(ht, key, idx + 1, dist + 1)

\* variant of the loop: a free slot is compared like one at the walk's distance
search_from_free_too(ht, key, idx, dist) ==
    IF ~(dist < ht.maxprobes) THEN NULL
    ELSE IF idx >= ht.totalsize THEN OOB
    ELSE IF /\ ht.pairs[idx].dist \in {dist, PAIR_FREE}
            /\ arch_streq(ht.pairs[idx].key, key) THEN idx
    ELSE search_from(ht, key, idx + 1, dist + 1)

\* the for loop of hash_table_search, at slot idx with distance dist
search_from(ht, key, idx, dist) ==
    IF ~(dist < ht.maxprobes) THEN NULL
    ELSE IF idx >= ht.totalsize THEN OOB
    ELSE IF ht.pairs[idx].dist = dist /\ arch_streq(ht.pairs[idx].key, key) THEN idx
    ELSE search_from(ht, key, idx + 1, dist + 1)

\* hash_table_search: index of the slot found, or NULL (OOB: see above)
hash_table_search(ht, key) == search_from(ht, key, HomeIdx(ht, key), 0)

\* ------------------------------------------------- insert and resize
\* A call that may resize is followed in an environment env: env.rand, the
\* values the next rand() calls return, and env.cap, the largest table size
\* explored.
Env(rand, cap) == [rand |-> rand, cap |-> cap]

\* The result of such a call: the table afterwards, the slot pointer returned
\* (insert only), the environment left, and how the call ended:
\*   ok   - it returned;
\*   more - it needs one more rand() value than env.rand holds;
\*   oob  - it indexed the slot array at or past totalsize;
\*   none of the three - it grew the table above env.cap.
Result(ht, ret, env, ok) ==
    [ht |-> ht, ret |-> ret, env |-> env, ok |-> ok, more |-> FALSE, oob |-> FALSE]

NeedsRand(ht, env) ==
    [ht |-> ht, ret |-> NULL, env |-> env, ok |-> FALSE, more |-> TRUE, oob |-> FALSE]

OutOfBounds(ht, env) ==
    [ht |-> ht, ret |-> NULL, env |-> env, ok |-> FALSE, more |-> FALSE, oob |-> TRUE]

RECURSIVE insert_from(_, _, _, _)
RECURSIVE insert_begin(_, _, _)
RECURSIVE hash_table_insert(_, _, _)
RECURSIVE resize_from(_, _, _, _)
RECURSIVE hash_table_resize(_, _)

\* variant of the loop: the retry after a resize keeps the carried distance
insert_from_keep_dist(ht, idx, cur, env) ==
    IF idx >= ht.totalsize THEN OutOfBounds(ht, env)
    ELSE
    LET p == ht.pairs[idx] IN
    IF p.dist = PAIR_FREE
    THEN Result([ht EXCEPT !.pairs[idx] = cur, !.numpairs = @ + 1], idx, env, TRUE)
    ELSE
      LET swap == p.dist > cur.dist
          ht1  == IF swap THEN [ht EXCEPT !.pairs[idx] = cur] ELSE ht
          cur1 == IF swap THEN p ELSE cur
          p1   == ht1.pairs[idx]
      IN  IF cur1.dist >= ht1.maxprobes
          THEN LET r == hash_table_resize(ht1, env)
               IN  IF ~r.ok THEN r
                   ELSE insert_begin(r.ht, cur1, r.env)
          ELSE IF p1.dist = cur1.dist /\ arch_streq(p1.key, cur1.key)
          THEN Result(ht1, NULL, env, TRUE)
          ELSE insert_from(ht1, idx + 1, [cur1 EXCEPT !.dist = @ + 1], env)

\* the for loop of hash_table_insert (lines 133-147), at slot idx carrying cur
insert_from(ht, idx, cur, env) ==
    IF idx >= ht.totalsize THEN OutOfBounds(ht, env)
    ELSE
    LET p == ht.pairs[idx] IN
    IF p.dist = PAIR_FREE
    THEN Result([ht EXCEPT !.pairs[idx] = cur, !.numpairs = @ + 1], idx, env, TRUE)
    ELSE
      LET swap == p.dist > cur.dist
          ht1  == IF swap THEN [ht EXCEPT !.pairs[idx] = cur] ELSE ht
          cur1 == IF swap THEN p ELSE cur
          p1   == ht1.pairs[idx]
      IN  IF cur1.dist >= ht1.maxprobes
          THEN LET r == hash_table_resize(ht1, env)
               IN  IF ~r.ok THEN r
                   ELSE insert_begin(r.ht, [cur1 EXCEPT !.dist = DIST_IDEAL], r.env)
          ELSE IF p1.dist = cur1.dist /\ arch_streq(p1.key, cur1.key)
          THEN Result(ht1, NULL, env, TRUE)
          ELSE insert_from(ht1, idx + 1, [cur1 EXCEPT !.dist = @ + 1], env)

\* label begin: (lines 129-131) the home index is computed, the walk starts
insert_begin(ht, cur, env) == insert_from(ht, HomeIdx(ht, cur.key), cur, env)

\* variant: the occupancy test before the walk is > instead of >=
hash_table_insert_late_resize(ht, cur, env) ==
    IF ht.numpairs > ht.maxpairs
    THEN LET r == hash_table_resize(ht, env)
         IN  IF ~r.ok THEN r
             ELSE insert_begin(r.ht, cur, r.env)
    ELSE insert_begin(ht, cur, env)

\* hash_table_insert(ht, cur)
hash_table_insert(ht, cur, env) ==
    IF ht.numpairs >= ht.maxpairs
    THEN LET r == hash_table_resize(ht, env)
         IN  IF ~r.ok THEN r
             ELSE insert_begin(r.ht, cur, r.env)
    ELSE insert_begin(ht, cur, env)

\* the for loop of hash_table_resize (lines 162-166): slot i of the old array
\* is reinserted into new
resize_from(old, i, new, env) ==
    IF ~(i < old.totalsize) THEN Result(new, NULL, env, TRUE)
    ELSE IF old.pairs[i].dist # PAIR_FREE
    THEN LET r == hash_table_insert(new, [old.pairs[i] EXCEPT !.dist = DIST_IDEAL], env)
         IN  IF ~r.ok THEN r
             ELSE resize_from(old, i + 1, r.ht, r.env)
    ELSE resize_from(old, i + 1, new, env)

\* variant: the new table has the size of the old one
hash_table_resize_same_size(ht, env) ==
    IF ht.size * 2 > env.cap THEN Result(ht, NULL, env, FALSE)
    ELSE IF env.rand = <<>> THEN NeedsRand(ht, env)
    ELSE resize_from(ht, 0,
                     hash_table_init(ht.size, ht.maxpairs * 2, Head(env.rand)),
                     Env(Tail(env.rand), env.cap))

\* hash_table_resize(ht): a table of twice the size and twice the maxpairs,
\* seeded by the next rand() value, takes every non-free slot of ht
hash_table_resize(ht, env) ==
    IF ht.size * 2 > env.cap THEN Result(ht, NULL, env, FALSE)
    ELSE IF env.rand = <<>> THEN NeedsRand(ht, env)
    ELSE resize_from(ht, 0,
                     hash_table_init(ht.size * 2, ht.maxpairs * 2, Head(env.rand)),
                     Env(Tail(env.rand), env.cap))

\* hash_table_remove: the slot found by search is marked free
hash_table_remove(ht, key) ==
    LET p == hash_table_search(ht, key)
    IN  [ht  |-> IF p # NULL /\ p # OOB
                 THEN [ht EXCEPT !.pairs[p].dist = PAIR_FREE] ELSE ht,
         ret |-> p]

\* ------------------------------------------------------------ the state
\* ht:   the struct hash_table (fields and slot array)
\* op:   the last call made, its arguments, what it returned, how many times
\*       it resized and whether it indexed outside the slot array
\* live: for each key, the value the callers inserted it with and have not
\*       removed since (0 = not inserted, or removed)
VARIABLES ht, op, live
vars == <<ht, op, live>>

Op(name, key, val, ret, resizes, oob) ==
    [name |-> name, key |-> key, val |-> val, ret |-> ret,
     resizes |-> resizes, oob |-> oob]

\* live[k] after an insert of (k, v): v while k has been inserted with that one
\* value since it was last absent, CHANGED once it was inserted with another
CHANGED == -1
Inserted(old, v) == IF old \in {0, v} THEN v ELSE CHANGED

RECURSIVE InsertOutcomes(_, _, _, _, _)
\* hash_table_insert(table, cur) under every sequence of values from seeds its
\* rand() calls can return (one call per resize), the sequence starting with
\* rand, for tables of size up to cap
InsertOutcomes(table, cur, rand, seeds, cap) ==
    LET r == hash_table_insert(table, cur, Env(rand, cap))
    IN  IF r.ok \/ r.oob
        THEN {[ht |-> r.ht, ret |-> r.ret, resizes |-> Len(rand), oob |-> r.oob]}
        ELSE IF r.more /\ Len(rand) < MaxResizes
        THEN UNION {InsertOutcomes(table, cur, Append(rand, x), seeds, cap) : x \in seeds}
        ELSE {}

RECURSIVE ResizeOutcomes(_, _, _, _)
\* the same for a call of hash_table_resize(table)
ResizeOutcomes(table, rand, seeds, cap) ==
    LET r == hash_table_resize(table, Env(rand, cap))
    IN  IF r.ok \/ r.oob
        THEN {[ht |-> r.ht, ret |-> NULL, resizes |-> Len(rand), oob |-> r.oob]}
        ELSE IF r.more /\ Len(rand) < MaxResizes
        THEN UNION {ResizeOutcomes(table, Append(rand, x), seeds, cap) : x \in seeds}
        ELSE {}

NoOp == Op("init", UNINIT_KEY, UNINIT_VAL, NULL, 0, FALSE)

Init ==
    /\ \E size \in 2..MaxInitSize, maxpairs \in 1..MaxInitPairs, seed \in SeedSet :
          ht = hash_table_init(size, maxpairs, seed)
    /\ op = NoOp
    /\ live = [k \in AllKeys |-> 0]

\* a caller inserts pair_init(k, v), k one of keys and v one of vals
InsertOfVals(keys, vals, seeds, cap) ==
    \E k \in keys, v \in vals :
      \E r \in InsertOutcomes(ht, pair_init(k, v), <<>>, seeds, cap) :
        /\ ht' = r.ht
        /\ op' = Op("insert", k, v, r.ret, r.resizes, r.oob)
        /\ live' = [live EXCEPT ![k] = Inserted(@, v)]

\* a caller inserts pair_init(k, v), k one of keys
InsertOf(keys, seeds, cap) == InsertOfVals(keys, Vals, seeds, cap)

\* a caller searches k
SearchOf(keys) ==
    \E k \in keys :
        /\ op' = Op("search", k, UNINIT_VAL, hash_table_search(ht, k), 0,
                    hash_table_search(ht, k) = OOB)
        /\ UNCHANGED <<ht, live>>

\* a caller removes k
RemoveOf(keys) ==
    \E k \in keys :
        LET r == hash_table_remove(ht, k) IN
        /\ ht' = r.ht
        /\ op' = Op("remove", k, UNINIT_VAL, r.ret, 0, r.ret = OOB)
        /\ live' = [live EXCEPT ![k] = 0]

\* a caller resizes the table (hash_table_resize is declared in the header)
ResizeOf(seeds, cap) ==
    \E r \in ResizeOutcomes(ht, <<>>, seeds, cap) :
        /\ ht' = r.ht
        /\ op' = Op("resize", UNINIT_KEY, UNINIT_VAL, NULL, r.resizes, r.oob)
        /\ UNCHANGED live

Insert == InsertOf(Keys, SeedSet, MaxSize)
Search == SearchOf(Keys)
Remove == RemoveOf(Keys)
Resize == ResizeOf(SeedSet, MaxSize)

Next == Insert \/ Search \/ Remove \/ Resize

Spec == Init /\ [][Next]_vars

\* The growth scenario: a table initialised with maxpairs = size, callers
\* that insert and search the keys GrowKeys and resize, and never remove.
GrowInit ==
    /\ \E size \in 2..GrowInitSize, seed \in GrowSeedSet :
          ht = hash_table_init(size, size, seed)
    /\ op = NoOp
    /\ live = [k \in AllKeys |-> 0]

GrowInsert == InsertOf(GrowKeys, GrowSeedSet, GrowMaxSize)
GrowSearch == SearchOf(GrowKeys)
GrowResize == ResizeOf(GrowSeedSet, GrowMaxSize)

GrowNext == GrowInsert \/ GrowSearch \/ GrowResize

SpecGrow == GrowInit /\ [][GrowNext]_vars

\* The chain scenario: a table initialised with size ChainInitSize and
\* maxpairs = size, callers that insert and search the keys ChainKeys and
\* resize, and never remove; every key is inserted with the same value.
ChainInit ==
    /\ \E seed \in ChainSeedSet :
          ht = hash_table_init(ChainInitSize, ChainInitSize, seed)
    /\ op = NoOp
    /\ live = [k \in AllKeys |-> 0]

ChainInsert == InsertOfVals(ChainKeys, {1}, ChainSeedSet, ChainMaxSize)
ChainSearch == SearchOf(ChainKeys)
ChainResize == ResizeOf(ChainSeedSet, ChainMaxSize)

ChainNext == ChainInsert \/ ChainSearch \/ ChainResize

SpecChain == ChainInit /\ [][ChainNext]_vars

\* The small-capacity scenario: hash_table_init is called with size 1 (for
\* which arch_ilog2 is defined: maxprobes = 0, totalsize = 1); the callers
\* then use the table as in Spec.  Size 0, for which __builtin_clz is
\* undefined, is left out.
TinyInit ==
    /\ \E maxpairs \in 1..MaxInitPairs, seed \in SeedSet :
          ht = hash_table_init(1, maxpairs, seed)
    /\ op = NoOp
    /\ live = [k \in AllKeys |-> 0]

SpecTiny == TinyInit /\ [][Next]_vars

\* ------------------------------------------------------------ the claims
\* the indices of the slots that are not free
Occupied(table) == {i \in DOMAIN table.pairs : table.pairs[i].dist # PAIR_FREE}

\* the value in the slot hash_table_search returns, 0 when it returns NULL
SearchVal(table, k) ==
    LET p == hash_table_search(table, k)
    IN  IF p = NULL \/ p = OOB THEN 0 ELSE table.pairs[p].val

\* C1: round trip. A key inserted with value v (and neither removed nor
\* inserted with another value since) is found by hash_table_search, in a
\* slot whose value is v, in every later state.
C1_RoundTrip ==
    \A k \in AllKeys : live[k] \in Vals => SearchVal(ht, k) = live[k]

\* C2: key uniqueness. In every reachable state no two occupied slots hold
\* equal keys.
C2_KeyUniqueness ==
    \A i, j \in Occupied(ht) :
        i # j => ~arch_streq(ht.pairs[i].key, ht.pairs[j].key)

\* C3: immediately after hash_table_remove(k) returns, hash_table_search(k)
\* returns NULL.
C3_RemovedIsAbsent ==
    op.name = "remove" => hash_table_search(ht, op.key) = NULL

\* C4: hash_table_remove(k) does not disturb other keys: a key k2 # k that
\* hash_table_search found with value v2 before the call is still found with
\* value v2 after it.
C4_RemoveKeepsOthers ==
    [][op'.name = "remove" =>
         \A k2 \in Keys \ {op'.key} :
            LET before == hash_table_search(ht, k2)
                after  == hash_table_search(ht', k2)
            IN  before # NULL =>
                  (after # NULL /\ ht'.pairs[after].val = ht.pairs[before].val)]_vars

\* C4 witness: a remove has freed a slot that lies on the probe path of
\* another key, between that key's home index and the slot where it is found.
C4_Witness ==
    /\ op.name = "remove"
    /\ op.ret # NULL
    /\ \E k2 \in Keys \ {op.key} :
          /\ hash_table_search(ht, k2) # NULL
          /\ HomeIdx(ht, k2) <= op.ret
          /\ op.ret < hash_table_search(ht, k2)

\* C5: upsert value. hash_table_insert(k, v2) while k is present with another
\* value v1 returns the entry (not NULL) and afterwards hash_table_search(k)
\* yields v2.
C5_UpsertValue ==
    [][(/\ op'.name = "insert"
        /\ hash_table_search(ht, op'.key) # NULL
        /\ SearchVal(ht, op'.key) # op'.val)
         => (op'.ret # NULL /\ SearchVal(ht', op'.key) = op'.val)]_vars

\* C6: upsert consumes no slot. hash_table_insert(k, _) while k is present
\* leaves numpairs and the number of occupied slots as they were.
C6_UpsertKeepsCount ==
    [][(op'.name = "insert" /\ hash_table_search(ht, op'.key) # NULL)
         => (/\ ht'.numpairs = ht.numpairs
             /\ Cardinality(Occupied(ht')) = Cardinality(Occupied(ht)))]_vars

C8_ResizeKeepsMembers ==
    [][op'.name = "resize" =>
         \A k \in AllKeys :
            (live[k] \in Vals /\ SearchVal(ht, k) = live[k])
               => SearchVal(ht', k) = live[k]]_vars

\* C9: hash_table_resize leaves numpairs unchanged.
C9_ResizeKeepsCount ==
    [][op'.name = "resize" => ht'.numpairs = ht.numpairs]_vars

\* C10: hash_table_remove of a present key returns the removed entry and
\* decrements numpairs by exactly one.
C10_RemoveDecrements ==
    [][(op'.name = "remove" /\ hash_table_search(ht, op'.key) # NULL)
         => (/\ op'.ret = hash_table_search(ht, op'.key)
             /\ ht'.numpairs = ht.numpairs - 1)]_vars

\* the key k is held by some occupied slot of table
Holds(table, k) == \E i \in Occupied(table) : arch_streq(table.pairs[i].key, k)

\* the indices hash_table_search(table, k) looks at: home .. home+maxprobes-1
ProbeWindow(table, k) ==
    {i \in DOMAIN table.pairs :
        HomeIdx(table, k) <= i /\ i < HomeIdx(table, k) + table.maxprobes}

\* C11: hash_table_remove(k) for a key k that no occupied slot holds returns
\* NULL and leaves every slot and every field of the table unchanged.
C11_RemoveAbsent ==
    [][(op'.name = "remove" /\ ~Holds(ht, op'.key))
         => (op'.ret = NULL /\ ht' = ht)]_vars

\* C11 witness: a remove of a key that no occupied slot holds returned NULL
\* while a freed slot on the key's probe path still stores the key.
C11_Witness ==
    /\ op.name = "remove"
    /\ op.ret = NULL
    /\ ~Holds(ht, op.key)
    /\ \E i \in ProbeWindow(ht, op.key) :
          ht.pairs[i].dist = PAIR_FREE /\ arch_streq(ht.pairs[i].key, op.key)

\* C12: hash_table_insert(k, v) with k held by no occupied slot returns a
\* slot that holds key k and value v, also when the walk swaps entries or the
\* call resizes and retries.
C12_InsertReturnsNew ==
    [][(op'.name = "insert" /\ ~Holds(ht, op'.key))
         => (/\ op'.ret # NULL
             /\ arch_streq(ht'.pairs[op'.ret].key, op'.key)
             /\ ht'.pairs[op'.ret].val = op'.val)]_vars

RECURSIVE Pow2(_)
Pow2(n) == IF n = 0 THEN 1 ELSE 2 * Pow2(n - 1)

\* a table size that MaxRetries doublings of table do not exceed
RetryCap(table) == table.size * Pow2(MaxRetries)

RECURSIVE InsertCompletes(_, _, _, _)
\* hash_table_insert(table, cur) returns after at most MaxRetries resizes,
\* whatever values from seeds its rand() calls return (the first ones being
\* rand), and each of its resizes has raised maxprobes by at least one
InsertCompletes(table, cur, rand, seeds) ==
    LET r == hash_table_insert(table, cur, Env(rand, RetryCap(table)))
    IN  IF r.ok \/ r.oob
        THEN r.ht.maxprobes >= table.maxprobes + Len(rand)
        ELSE /\ r.more
             /\ Len(rand) < MaxRetries
             /\ \A x \in seeds : InsertCompletes(table, cur, Append(rand, x), seeds)

RECURSIVE ResizeCompletes(_, _, _)
\* the same for hash_table_resize(table), which resizes at least once
ResizeCompletes(table, rand, seeds) ==
    LET r == hash_table_resize(table, Env(rand, RetryCap(table)))
    IN  IF r.ok \/ r.oob
        THEN r.ht.maxprobes >= table.maxprobes + Len(rand) /\ Len(rand) >= 1
        ELSE /\ r.more
             /\ Len(rand) < MaxRetries
             /\ \A x \in seeds : ResizeCompletes(table, Append(rand, x), seeds)

C14_InitRejectsSmall ==
    ~(op.name = "init" /\ ht.size <= 1)

\* C15: probe-bound invariant. In every reachable state every occupied slot
\* has dist < maxprobes.
C15_ProbeBound ==
    \A i \in Occupied(ht) : ht.pairs[i].dist < ht.maxprobes

\* C16: distance invariant. In every reachable state every occupied slot i
\* holding key k with distance d satisfies i = home(k) + d, home computed
\* with the table's current seed and size.
C16_DistanceInvariant ==
    \A i \in Occupied(ht) :
        i = HomeIdx(ht, ht.pairs[i].key) + ht.pairs[i].dist

\* C16 witness: an insert that swapped (the slot it returns holds a displaced
\* key, not the inserted one), then resized and retried, leaving an entry
\* away from its home slot.
C16_Witness ==
    /\ op.name = "insert"
    /\ op.resizes >= 1
    /\ op.ret # NULL
    /\ ~arch_streq(ht.pairs[op.ret].key, op.key)
    /\ \E i \in Occupied(ht) : ht.pairs[i].dist > 0

\* C17: no out-of-bounds probe. No call of hash_table_insert,
\* hash_table_search or hash_table_remove (which searches), and no
\* hash_table_resize (which reinserts), has indexed a slot outside
\* 0 .. totalsize-1, and hash_table_search of any key in the current table
\* stays within 0 .. totalsize-1.
C17_InBounds ==
    /\ ~op.oob
    /\ \A k \in AllKeys : hash_table_search(ht, k) # OOB

\* C17 witness: an insert has walked to the last guard slot, totalsize-1, and
\* stored its entry there.
C17_Witness ==
    op.name = "insert" /\ op.ret = ht.totalsize - 1 /\ ht.maxprobes >= 1

RECURSIVE walk_from(_, _, _)
\* the occupied slots the for loop of hash_table_insert meets in table from
\* slot idx carrying cur, until it returns or resizes: for each, the slot,
\* the occupant's dist, the carried entry's dist, and whether line 137 swaps
walk_from(table, idx, cur) ==
    IF idx >= table.totalsize THEN {}
    ELSE
    LET p == table.pairs[idx] IN
    IF p.dist = PAIR_FREE THEN {}
    ELSE
      LET swap == p.dist > cur.dist
          t1   == IF swap THEN [table EXCEPT !.pairs[idx] = cur] ELSE table
          cur1 == IF swap THEN p ELSE cur
          p1   == t1.pairs[idx]
          step == [idx |-> idx, occupant |-> p.dist, carried |-> cur.dist,
                   swapped |-> swap]
      IN  IF cur1.dist >= t1.maxprobes THEN {step}
          ELSE IF p1.dist = cur1.dist /\ arch_streq(p1.key, cur1.key) THEN {step}
          ELSE {step} \cup walk_from(t1, idx + 1, [cur1 EXCEPT !.dist = @ + 1])

\* C18: Robin Hood displacement rule. In the walk of a hash_table_insert
\* (one that did not resize), the carried entry is swapped into an occupied
\* slot exactly when the occupant's dist is strictly less than the carried
\* entry's dist.
C18_RobinHoodRule ==
    [][(op'.name = "insert" /\ op'.resizes = 0)
         => \A st \in walk_from(ht, HomeIdx(ht, op'.key), pair_init(op'.key, op'.val)) :
                st.swapped <=> st.occupant < st.carried]_vars

\* C19: resize doubles. When hash_table_resize returns, size and maxpairs
\* are exactly twice their values before the call, maxprobes is
\* floor(log2(size)) and totalsize is size + maxprobes for the new size.
C19_ResizeDoubles ==
    [][op'.name = "resize" =>
         (/\ ht'.size = 2 * ht.size
          /\ ht'.maxpairs = 2 * ht.maxpairs
          /\ ht'.maxprobes = arch_ilog2(ht'.size)
          /\ ht'.totalsize = ht'.size + ht'.maxprobes)]_vars

\* C20: search soundness. Whenever hash_table_search(k) returns a slot, the
\* slot is occupied (not free, in particular not a freed slot that still
\* stores k) and its key equals k; and the call changes no slot and no field
\* of the table.
C20_SearchSound ==
    [][op'.name = "search" =>
         (/\ ht' = ht
          /\ op'.ret # NULL =>
                (/\ op'.ret \in Occupied(ht)
                 /\ arch_streq(ht.pairs[op'.ret].key, op'.key)))]_vars

\* C20 witness: a search has run while a freed slot on the key's probe path
\* still stored the key.
C20_Witness ==
    /\ op.name = "search"
    /\ \E i \in ProbeWindow(ht, op.key) :
          ht.pairs[i].dist = PAIR_FREE /\ arch_streq(ht.pairs[i].key, op.key)

====
